---- MODULE Spec2Model ----
(***************************************************************************)
(* The execution engine of the Script namespace: Command, Sequence,        *)
(* Player and Engine.  Names (script names, label names) are sequences of  *)
(* one-character strings so that Label.fullname and Label.isFullname are   *)
(* computed character by character as the source does.                     *)
(*                                                                         *)
(* One Engine.run() call is a sequence of steps of one control position    *)
(* (phase): "idle" -> "loop" (one step per iteration of the while loop of  *)
(* Player.run) -> "upd" (the update / finish part) -> "ret" (the pop check *)
(* of Engine.run) -> "idle".  While phase # "idle" exactly one step is     *)
(* enabled: the host cannot interleave calls with a running tick.          *)
(*                                                                         *)
(* Parser.parse is a second state machine over variables of its own: one   *)
(* step per pass of its while loop, on script texts put together from a    *)
(* small set of parts (SpecParser).                                        *)
(***************************************************************************)
EXTENDS Integers, Sequences, FiniteSets, TLC

\* Bounds of the model.
MaxCommands == 6
MaxStack == 2
MaxTickLog == 12
MaxPieces == 3

--------------------------------------------------------------------------
\* Names

DefaultScript == <<"d", "e", "f", "a", "u", "l", "t">>
SubScript == <<"s", "u", "b">>
EmptyScript == <<>>
ScriptNames == {DefaultScript, SubScript, EmptyScript}

LabelX == <<"x">>
LabelSlashX == <<"/", "x">>

\* First position (0-based) of character ch in str, -1 when absent.
indexOf(str, ch) ==
    IF \E i \in 1..Len(str) : str[i] = ch
    THEN (CHOOSE i \in 1..Len(str) :
              /\ str[i] = ch
              /\ \A j \in 1..(i - 1) : str[j] # ch) - 1
    ELSE -1

fullname(scriptName, labelName) == scriptName \o <<"/">> \o labelName

isFullname(name) == indexOf(name, "/") > 0

Label(scriptName, labelName, index) ==
    [scriptName |-> scriptName, labelName |-> labelName, index |-> index]

--------------------------------------------------------------------------
\* Commands.  A command object is described by what its hooks do; the
\* mutable field of ContinuousCommand (commandFinished) is kept per
\* position of each Sequence in the variable commandFinished.

NoCall == [op |-> "none", index |-> 0, scriptName |-> <<>>]
CallGoto(index, scriptName) ==
    [op |-> "goto", index |-> index, scriptName |-> scriptName]
CallGosub(index, scriptName) ==
    [op |-> "gosub", index |-> index, scriptName |-> scriptName]

\* kind: "oneshot" (OneShotCommand), "continuous" (ContinuousCommand),
\* "halt" (CommandHalt), "label" (CommandLabel).
\* onStart / onUpdate: the Engine call made by start / update.
\* stopInStart: start calls stopCommand.  stopAt = k > 0: update calls
\* stopCommand on its k-th call since start.  external: a callback running
\* between ticks may call stopCommand.
OneShotCommand ==
    [kind |-> "oneshot", name |-> <<>>, isBreak |-> FALSE,
     onStart |-> NoCall, onUpdate |-> NoCall,
     stopInStart |-> FALSE, stopAt |-> 0, external |-> FALSE]
ContinuousCommand == [OneShotCommand EXCEPT !.kind = "continuous"]

Log == OneShotCommand
CommandHaltCmd == [OneShotCommand EXCEPT !.kind = "halt"]
CommandLabel(name) == [OneShotCommand EXCEPT !.kind = "label", !.name = name]
Goto(index, scriptName) ==
    [OneShotCommand EXCEPT !.onStart = CallGoto(index, scriptName)]
BreakGoto(index, scriptName) ==
    [OneShotCommand EXCEPT !.onStart = CallGoto(index, scriptName),
                           !.isBreak = TRUE]
Gosub(index, scriptName) ==
    [OneShotCommand EXCEPT !.onStart = CallGosub(index, scriptName)]
BreakGosub(index, scriptName) ==
    [OneShotCommand EXCEPT !.onStart = CallGosub(index, scriptName),
                           !.isBreak = TRUE]
Wait(k) == [ContinuousCommand EXCEPT !.stopAt = k]
WaitExternal == [ContinuousCommand EXCEPT !.external = TRUE]
StopInStart == [ContinuousCommand EXCEPT !.stopInStart = TRUE]
GosubOnUpdate(index, scriptName) ==
    [ContinuousCommand EXCEPT !.onUpdate = CallGosub(index, scriptName),
                              !.stopAt = 1]
GotoOnUpdate(index, scriptName) ==
    [ContinuousCommand EXCEPT !.onUpdate = CallGoto(index, scriptName)]

\* The command lists the host registers, each under its script name.
Inputs ==
    { [scriptName |-> DefaultScript,
       commands |-> <<Log, CommandHaltCmd>>],
      [scriptName |-> DefaultScript,
       commands |-> <<Gosub(0, SubScript), Wait(2),
                      BreakGoto(1, DefaultScript)>>],
      [scriptName |-> DefaultScript,
       commands |-> <<CommandLabel(LabelX), BreakGosub(1, SubScript),
                      WaitExternal>>],
      [scriptName |-> SubScript,
       commands |-> <<CommandLabel(LabelX), GosubOnUpdate(2, SubScript),
                      Log>>],
      [scriptName |-> SubScript,
       commands |-> <<CommandLabel(LabelSlashX), StopInStart,
                      GotoOnUpdate(6, DefaultScript)>>],
      [scriptName |-> EmptyScript,
       commands |-> <<CommandLabel(LabelX), Goto(0, EmptyScript), Log>>] }

\* The goto / gosub calls the host makes between ticks.
HostGotos == { [index |-> 0, scriptName |-> DefaultScript] }
HostGosubs == { [index |-> 1, scriptName |-> SubScript] }

\* The value the host stores.
HostValues == { [name |-> <<"v">>, value |-> 1] }

\* The names the host looks up.
LookupNames ==
    { LabelX, LabelSlashX, fullname(SubScript, LabelX) }

--------------------------------------------------------------------------
VARIABLES
    sequences,          \* Engine.sequences: script name -> Sequence.program
    valueContainer,     \* Engine.valueContainer.values: name -> value
    labelTable,         \* Engine.labelTable: full label name -> Label
    player,             \* Engine.player (id 0: undefined)
    callStack,          \* Engine.callStack
    commandFinished,    \* ContinuousCommand.commandFinished per command
    updateCount,        \* a Wait(k) command's count of updates since start
    onRegisteredCount,  \* onRegistered calls received, per command
    registerLog,        \* history: the lists registered, per script name
    labelsAtOnRegistered, \* history: labelTable as the first onRegistered
                        \* of the last register call saw it
    phase,              \* control position inside Engine.run
    runner,             \* id of the Player whose run is executing (this)
    tickLog,            \* history: hook calls of the Engine.run() call in
                        \* progress or just returned
    gosubAt,            \* history, parallel to callStack: the command
                        \* whose hook called the gosub that pushed
    haltedBefore,       \* history: Engine.isHalted when the tick began
    failed,             \* a TypeError was thrown to the host
    labelResult,        \* value returned by the getLabel call just made
    script,             \* Parser.parse: the script text
    pieces,             \* history: the parts the text was put together from
    pos,                \* Parser.parse: p, the cursor position
    state,              \* Parser.parse: state
    stateStack,         \* Parser.parse: stateStack
    line,               \* Parser.parse: line counter
    parsedCommands,     \* Parser.parse: commands, the list built so far
    currentCommand,     \* Parser.parse: name and arguments of the call
    result,             \* Parser.parse: running, returned or thrown
    error               \* Parser.parse: the Error thrown

vars == <<sequences, valueContainer, labelTable, player, callStack,
          commandFinished, updateCount, onRegisteredCount, registerLog, labelsAtOnRegistered,
          phase, runner, tickLog, gosubAt, haltedBefore, failed,
          labelResult>>

parserVars == <<script, pieces, pos, state, stateStack, line, parsedCommands,
                currentCommand, result, error>>

--------------------------------------------------------------------------
\* Player

Undefined == [def |-> FALSE, scriptName |-> <<>>]
SequenceOf(scriptName) ==
    IF scriptName \in DOMAIN sequences
    THEN [def |-> TRUE, scriptName |-> scriptName]
    ELSE Undefined

CommandReady == [tag |-> "ready", scriptName |-> <<>>, index |-> -1]
CommandHalt == [tag |-> "halt", scriptName |-> <<>>, index |-> -1]
CommandAt(scriptName, index) ==
    [tag |-> "cmd", scriptName |-> scriptName, index |-> index]
HostCaller == [tag |-> "host", scriptName |-> <<>>, index |-> -1]

fetchCommand(c) == sequences[c.scriptName][c.index + 1]

\* Mutant of reset: the program counter is -1 after every reset.
resetToMinusOne(p, sequence, index) ==
    [p EXCEPT !.sequence = sequence,
              !.programCounter = -1,
              !.currentCommand = CommandReady,
              !.lastStarted = -1,
              !.resetIndex = index]

\* lastStarted and resetIndex are history fields: the index of the last
\* command the Player started since it was created or reset (-1: none),
\* and the index it was created or reset with.
reset(p, sequence, index) ==
    [p EXCEPT !.sequence = sequence,
              !.programCounter = index - 1,
              !.currentCommand = CommandReady,
              !.lastStarted = -1,
              !.resetIndex = index]

NewPlayer(id, sequence, index) ==
    reset([id |-> id, sequence |-> Undefined, programCounter |-> -1,
           currentCommand |-> CommandReady, lastStarted |-> -1,
           resetIndex |-> 0], sequence, index)

NoPlayer == NewPlayer(0, Undefined, 0)

\* Mutant of isFinished: the Halt sentinel reports finished.
isFinishedHaltToo(st, c) ==
    CASE c.tag \in {"ready", "halt"} -> TRUE
      [] OTHER ->
            IF fetchCommand(c).kind \in {"oneshot", "label"}
            THEN TRUE
            ELSE st.commandFinished[c.scriptName][c.index + 1]

\* Command.isFinished of a Player's currentCommand, in engine state st.
isFinished(st, c) ==
    CASE c.tag = "ready" -> TRUE
      [] c.tag = "halt" -> FALSE
      [] OTHER ->
            IF fetchCommand(c).kind \in {"oneshot", "label"}
            THEN TRUE
            ELSE st.commandFinished[c.scriptName][c.index + 1]

\* Mutant of isBreak: every command breaks the tick.
isBreakAlways(c) == TRUE

isBreak(c) ==
    IF c.tag = "cmd" THEN fetchCommand(c).isBreak ELSE FALSE

\* Player.isHalted: currentCommand instanceof CommandHalt.
isHalted(p) ==
    \/ p.currentCommand.tag = "halt"
    \/ /\ p.currentCommand.tag = "cmd"
       /\ fetchCommand(p.currentCommand).kind = "halt"

--------------------------------------------------------------------------
\* Engine state as a record, so that the calls made inside one step compose.

EngineState ==
    [player |-> player, callStack |-> callStack, gosubAt |-> gosubAt,
     commandFinished |-> commandFinished, updateCount |-> updateCount,
     tickLog |-> tickLog, overflow |-> FALSE]

\* tickLog holds the hook calls of one Engine.run(): any other call of the
\* host starts from an empty log.
NoLog(st) == [st EXCEPT !.tickLog = <<>>]

PlayerIds(st) ==
    {st.player.id} \cup {st.callStack[k].id : k \in 1..Len(st.callStack)}

\* Object identity of a new Player: the least id no live Player has.
FreshId(st) ==
    CHOOSE n \in 1..(MaxStack + 3) :
        /\ n \notin PlayerIds(st)
        /\ \A m \in 1..(n - 1) : m \in PlayerIds(st)

GetPlayer(st, id) ==
    IF st.player.id = id
    THEN st.player
    ELSE st.callStack[CHOOSE k \in 1..Len(st.callStack) :
                          st.callStack[k].id = id]

SetPlayer(st, id, p) ==
    IF st.player.id = id
    THEN [st EXCEPT !.player = p]
    ELSE [st EXCEPT !.callStack =
              [k \in 1..Len(st.callStack) |->
                  IF st.callStack[k].id = id THEN p ELSE st.callStack[k]]]

\* Mutant of goto: the previous position is pushed before the reset.
gotoPushing(st, index, scriptName) ==
    [st EXCEPT !.callStack = Append(st.callStack, st.player),
               !.gosubAt = Append(st.gosubAt, HostCaller),
               !.player = reset(st.player, SequenceOf(scriptName), index)]

goto(st, index, scriptName) ==
    [st EXCEPT !.player = reset(st.player, SequenceOf(scriptName), index)]

gosub(st, index, scriptName, by) ==
    [st EXCEPT !.callStack = Append(st.callStack, st.player),
               !.gosubAt = Append(st.gosubAt, by),
               !.player = NewPlayer(FreshId(st), SequenceOf(scriptName),
                                    index),
               !.overflow = st.overflow \/ Len(st.callStack) >= MaxStack]

\* The Engine call a hook of command `by` makes.
Call(st, hook, by) ==
    CASE hook.op = "goto" -> goto(st, hook.index, hook.scriptName)
      [] hook.op = "gosub" -> gosub(st, hook.index, hook.scriptName, by)
      [] OTHER -> st

Event(ev, c, fin) == [ev |-> ev, cmd |-> c, fin |-> fin]

\* The log keeps the first MaxTickLog hook calls of a run().
Logged(st, ev, c) ==
    IF Len(st.tickLog) < MaxTickLog
    THEN [st EXCEPT !.tickLog =
              Append(st.tickLog, Event(ev, c, isFinished(st, c)))]
    ELSE st

\* ContinuousCommand.init clears commandFinished; Command.init does nothing.
init(st, c) ==
    Logged(IF fetchCommand(c).kind \in {"continuous", "halt"}
           THEN [st EXCEPT !.commandFinished[c.scriptName][c.index + 1] = FALSE]
           ELSE st,
           "init", c)

start(st, c) ==
    LET cmd == fetchCommand(c)
        st1 == IF cmd.kind = "continuous"
               THEN [st EXCEPT
                       !.updateCount[c.scriptName][c.index + 1] = 0,
                       !.commandFinished[c.scriptName][c.index + 1] =
                           IF cmd.stopInStart THEN TRUE ELSE @]
               ELSE st
    IN  Logged(Call(st1, cmd.onStart, c), "start", c)

update(st, c) ==
    IF c.tag = "cmd" /\ fetchCommand(c).kind = "continuous"
    THEN LET cmd == fetchCommand(c)
             n == st.updateCount[c.scriptName][c.index + 1] + 1
             st1 == IF cmd.stopAt > 0
                    THEN [st EXCEPT
                            !.updateCount[c.scriptName][c.index + 1] = n,
                            !.commandFinished[c.scriptName][c.index + 1] =
                                IF n = cmd.stopAt THEN TRUE ELSE @]
                    ELSE st
         IN  Logged(Call(st1, cmd.onUpdate, c), "update", c)
    ELSE Logged(st, "update", c)

finish(st, c) == Logged(st, "finish", c)

--------------------------------------------------------------------------
\* Player.run, one iteration of its while loop.  The result names the
\* position reached: "loop" (next iteration), "upd" (the part after the
\* loop), "ret" (return), "throw" (TypeError: sequence is undefined).
LoopStep(st, id) ==
    LET me == GetPlayer(st, id)
    IN  IF ~isFinished(st, me.currentCommand)
        THEN [st |-> st, phase |-> "upd"]
        ELSE
        LET pc == me.programCounter + 1
            st1 == SetPlayer(st, id, [me EXCEPT !.programCounter = pc])
        IN  IF ~me.sequence.def
            THEN [st |-> st1, phase |-> "throw"]
            ELSE IF Len(sequences[me.sequence.scriptName]) <= pc
            THEN [st |-> Logged(SetPlayer(st, id,
                                   [me EXCEPT !.programCounter = pc,
                                              !.currentCommand = CommandHalt]),
                                "halt", CommandHalt),
                  phase |-> "ret"]
            ELSE
            LET c == CommandAt(me.sequence.scriptName, pc)
                st2 == SetPlayer(st, id,
                           [me EXCEPT !.programCounter = pc,
                                      !.currentCommand = c,
                                      !.lastStarted = pc])
                st3 == start(init(st2, c), c)
            IN  [st |-> st3,
                 phase |-> IF isBreak(GetPlayer(st3, id).currentCommand)
                           THEN "upd" ELSE "loop"]

\* Mutant of UpdateStep: finish is not called after the update.
UpdateStepNoFinish(st, id) ==
    LET c == GetPlayer(st, id).currentCommand
    IN  IF isFinished(st, c) = FALSE THEN update(st, c) ELSE st

\* Player.run, the part after the loop.
UpdateStep(st, id) ==
    LET c == GetPlayer(st, id).currentCommand
    IN  IF isFinished(st, c) = FALSE
        THEN LET st1 == update(st, c)
                 c1 == GetPlayer(st1, id).currentCommand
             IN  IF isFinished(st1, c1) THEN finish(st1, c1) ELSE st1
        ELSE st

\* Mutant of PopCondition: the pop waits for the run() after the one in
\* which the Player halted.
PopConditionNextRun(st) ==
    haltedBefore /\ isHalted(st.player) /\ Len(st.callStack) > 0

\* Engine.run, after player.run returned.
PopCondition(st) == isHalted(st.player) /\ Len(st.callStack) > 0

\* Mutant of ReturnStep: callStack.shift() instead of callStack.pop().
ReturnStepShift(st) ==
    IF isHalted(st.player) /\ Len(st.callStack) > 0
    THEN [st EXCEPT
            !.player = st.callStack[1],
            !.callStack = SubSeq(st.callStack, 2, Len(st.callStack)),
            !.gosubAt = SubSeq(st.gosubAt, 2, Len(st.gosubAt)),
            !.tickLog = Append(st.tickLog,
                               Event("pop", st.gosubAt[1], FALSE))]
    ELSE st

ReturnStep(st) ==
    IF PopCondition(st)
    THEN [st EXCEPT
            !.player = st.callStack[Len(st.callStack)],
            !.callStack = SubSeq(st.callStack, 1, Len(st.callStack) - 1),
            !.gosubAt = SubSeq(st.gosubAt, 1, Len(st.gosubAt) - 1),
            !.tickLog = Append(st.tickLog,
                               Event("pop", st.gosubAt[Len(st.gosubAt)],
                                     FALSE))]
    ELSE st

--------------------------------------------------------------------------
\* Engine.register

NoResult ==
    [called |-> FALSE, name |-> <<>>, found |-> FALSE,
     label |-> Label(<<>>, <<>>, 0)]

Put(f, k, v) == [x \in DOMAIN f \cup {k} |-> IF x = k THEN v ELSE f[x]]

\* Mutant of SeqRegister: the new list replaces the program.
SeqRegisterReplace(program, commands) == commands

\* Sequence.register
SeqRegister(program, commands) == program \o commands

\* Mutant of IndexLabels: the Label records the 1-based position.
RECURSIVE IndexLabelsOneBased(_, _, _, _)
IndexLabelsOneBased(table, scriptName, program, i) ==
    IF i >= Len(program)
    THEN table
    ELSE IndexLabelsOneBased(
             IF program[i + 1].kind = "label"
             THEN Put(table, fullname(scriptName, program[i + 1].name),
                      Label(scriptName, program[i + 1].name, i + 1))
             ELSE table,
             scriptName, program, i + 1)

\* First pass of Engine.register over the whole sequence, from position i.
RECURSIVE IndexLabels(_, _, _, _)
IndexLabels(table, scriptName, program, i) ==
    IF i >= Len(program)
    THEN table
    ELSE IndexLabels(
             IF program[i + 1].kind = "label"
             THEN Put(table, fullname(scriptName, program[i + 1].name),
                      Label(scriptName, program[i + 1].name, i))
             ELSE table,
             scriptName, program, i + 1)

\* Second pass: onRegistered on every command of the whole sequence.
OnRegisteredPass(counts, program) ==
    [i \in 1..Len(program) |->
        (IF i <= Len(counts) THEN counts[i] ELSE 0) + 1]

\* Number of commands the Engine holds, over all its Sequences.
RECURSIVE TotalCommands(_, _)
TotalCommands(seqs, names) ==
    IF names = {}
    THEN 0
    ELSE LET s == CHOOSE s \in names : TRUE
         IN  Len(seqs[s]) + TotalCommands(seqs, names \ {s})

Extend(values, n, v) ==
    [i \in 1..n |-> IF i <= Len(values) THEN values[i] ELSE v]

Register(commands, scriptName) ==
    /\ phase = "idle"
    /\ ~failed
    /\ TotalCommands(sequences, DOMAIN sequences) + Len(commands) <= MaxCommands
    /\ LET old == IF scriptName \in DOMAIN sequences
                  THEN sequences[scriptName] ELSE <<>>
           program == SeqRegister(old, commands)
           table == IndexLabels(labelTable, scriptName, program, 0)
           oldCounts == IF scriptName \in DOMAIN sequences
                        THEN onRegisteredCount[scriptName] ELSE <<>>
           oldFinished == IF scriptName \in DOMAIN sequences
                          THEN commandFinished[scriptName] ELSE <<>>
           oldUpdates == IF scriptName \in DOMAIN sequences
                         THEN updateCount[scriptName] ELSE <<>>
       IN  /\ sequences' = Put(sequences, scriptName, program)
           /\ player' = IF player.id = 0
                        THEN NewPlayer(1, [def |-> TRUE,
                                           scriptName |-> scriptName], 0)
                        ELSE player
           /\ labelTable' = table
           /\ labelsAtOnRegistered' =
                  IF Len(program) > 0 THEN table ELSE labelsAtOnRegistered
           /\ onRegisteredCount' =
                  Put(onRegisteredCount, scriptName,
                      OnRegisteredPass(oldCounts, program))
           /\ commandFinished' =
                  Put(commandFinished, scriptName,
                      Extend(oldFinished, Len(program), FALSE))
           /\ updateCount' =
                  Put(updateCount, scriptName,
                      Extend(oldUpdates, Len(program), 0))
           /\ registerLog' =
                  [registerLog EXCEPT ![scriptName] = Append(@, commands)]
    /\ labelResult' = NoResult
    /\ tickLog' = <<>>
    /\ UNCHANGED <<valueContainer, callStack, phase, runner, gosubAt,
                   haltedBefore, failed>>
    /\ UNCHANGED parserVars

--------------------------------------------------------------------------
\* Engine.getLabel.  Reading player.scriptName throws when the Engine has
\* no Player yet or the Player's sequence is undefined.
LabelKey(name) ==
    IF isFullname(name) = FALSE
    THEN fullname(player.sequence.scriptName, name)
    ELSE name

getLabelThrows(name) ==
    /\ isFullname(name) = FALSE
    /\ (player.id = 0 \/ ~player.sequence.def)

getLabel(name) ==
    IF LabelKey(name) \in DOMAIN labelTable
    THEN [called |-> TRUE, name |-> name, found |-> TRUE,
          label |-> labelTable[LabelKey(name)]]
    ELSE [called |-> TRUE, name |-> name, found |-> FALSE,
          label |-> Label(<<>>, <<>>, 0)]

GetLabel(name) ==
    /\ phase = "idle"
    /\ ~failed
    /\ IF getLabelThrows(name)
       THEN failed' = TRUE /\ labelResult' = NoResult
       ELSE failed' = FALSE /\ labelResult' = getLabel(name)
    /\ tickLog' = <<>>
    /\ UNCHANGED <<valueContainer, sequences, labelTable, player,
                   callStack,
                   commandFinished, updateCount, onRegisteredCount,
                   registerLog, labelsAtOnRegistered, phase, runner,
                   gosubAt, haltedBefore>>
    /\ UNCHANGED parserVars

--------------------------------------------------------------------------
\* Engine.run

SetEngine(st) ==
    /\ player' = st.player
    /\ callStack' = st.callStack
    /\ gosubAt' = st.gosubAt
    /\ commandFinished' = st.commandFinished
    /\ updateCount' = st.updateCount
    /\ tickLog' = st.tickLog

\* The host calls Engine.run(): player.run(this) is entered.
Run ==
    /\ phase = "idle"
    /\ ~failed
    /\ IF player.id = 0
       THEN /\ failed' = TRUE
            /\ UNCHANGED <<phase, runner, tickLog, haltedBefore>>
       ELSE /\ phase' = "loop"
            /\ runner' = player.id
            /\ tickLog' = <<>>
            /\ haltedBefore' = isHalted(player)
            /\ UNCHANGED failed
    /\ labelResult' = NoResult
    /\ UNCHANGED <<valueContainer, sequences, labelTable, player,
                   callStack,
                   commandFinished, updateCount, onRegisteredCount,
                   registerLog, labelsAtOnRegistered, gosubAt>>
    /\ UNCHANGED parserVars

PlayerRunLoop ==
    /\ phase = "loop"
    /\ LET r == LoopStep(EngineState, runner)
       IN  /\ ~r.st.overflow
           /\ SetEngine(r.st)
           /\ phase' = IF r.phase = "throw" THEN "idle" ELSE r.phase
           /\ failed' = (r.phase = "throw")
    /\ UNCHANGED <<valueContainer, sequences, labelTable,
                   onRegisteredCount, registerLog, labelsAtOnRegistered,
                   runner, haltedBefore, labelResult>>
    /\ UNCHANGED parserVars

PlayerRunUpdate ==
    /\ phase = "upd"
    /\ LET st == UpdateStep(EngineState, runner)
       IN  /\ ~st.overflow
           /\ SetEngine(st)
    /\ phase' = "ret"
    /\ UNCHANGED <<valueContainer, sequences, labelTable,
                   onRegisteredCount, registerLog, labelsAtOnRegistered,
                   runner, haltedBefore, failed,
                   labelResult>>
    /\ UNCHANGED parserVars

EngineRunReturn ==
    /\ phase = "ret"
    /\ SetEngine(ReturnStep(EngineState))
    /\ phase' = "idle"
    /\ UNCHANGED <<valueContainer, sequences, labelTable,
                   onRegisteredCount, registerLog, labelsAtOnRegistered,
                   runner, haltedBefore, failed,
                   labelResult>>
    /\ UNCHANGED parserVars

--------------------------------------------------------------------------
\* Calls the host makes between ticks.

HostGoto(index, scriptName) ==
    /\ phase = "idle"
    /\ ~failed
    /\ player.id # 0
    /\ SetEngine(goto(NoLog(EngineState), index, scriptName))
    /\ labelResult' = NoResult
    /\ UNCHANGED <<valueContainer, sequences, labelTable,
                   onRegisteredCount, registerLog, labelsAtOnRegistered,
                   phase, runner, haltedBefore,
                   failed>>
    /\ UNCHANGED parserVars

HostGosub(index, scriptName) ==
    /\ phase = "idle"
    /\ ~failed
    /\ player.id # 0
    /\ Len(callStack) < MaxStack
    /\ SetEngine(gosub(NoLog(EngineState), index, scriptName, HostCaller))
    /\ labelResult' = NoResult
    /\ UNCHANGED <<valueContainer, sequences, labelTable,
                   onRegisteredCount, registerLog, labelsAtOnRegistered,
                   phase, runner, haltedBefore,
                   failed>>
    /\ UNCHANGED parserVars

\* A callback running between ticks calls stopCommand on the command it
\* was handed, while that command is some Player's current command.
IsCurrent(c) ==
    \/ player.currentCommand = c
    \/ \E k \in 1..Len(callStack) : callStack[k].currentCommand = c

stopCommand(finished, c) ==
    [finished EXCEPT ![c.scriptName][c.index + 1] = TRUE]

ExternalStop(scriptName, index) ==
    /\ phase = "idle"
    /\ ~failed
    /\ scriptName \in DOMAIN sequences
    /\ index < Len(sequences[scriptName])
    /\ fetchCommand(CommandAt(scriptName, index)).external
    /\ IsCurrent(CommandAt(scriptName, index))
    /\ ~commandFinished[scriptName][index + 1]
    /\ commandFinished' =
           stopCommand(commandFinished, CommandAt(scriptName, index))
    /\ labelResult' = NoResult
    /\ tickLog' = <<>>
    /\ UNCHANGED <<valueContainer, sequences, labelTable, player,
                   callStack, updateCount,
                   onRegisteredCount, registerLog, labelsAtOnRegistered,
                   phase, runner, gosubAt, haltedBefore, failed>>
    /\ UNCHANGED parserVars

\* Engine.setValue
SetValue(valueName, value) ==
    /\ phase = "idle"
    /\ ~failed
    /\ valueName \notin DOMAIN valueContainer
    /\ valueContainer' = Put(valueContainer, valueName, value)
    /\ labelResult' = NoResult
    /\ tickLog' = <<>>
    /\ UNCHANGED <<sequences, labelTable, player, callStack,
                   commandFinished, updateCount, onRegisteredCount,
                   registerLog, labelsAtOnRegistered, phase, runner,
                   gosubAt, haltedBefore, failed>>
    /\ UNCHANGED parserVars

--------------------------------------------------------------------------
Filename == <<"s">>
NoError == [kind |-> "none", filename |-> <<>>, line |-> 0]
Error(kind, ln) == [kind |-> kind, filename |-> Filename, line |-> ln]

\* No parse is in progress.
ParserIdle ==
    /\ script = <<>>
    /\ pieces = <<>>
    /\ pos = 0
    /\ state = "default"
    /\ stateStack = <<>>
    /\ line = 1
    /\ parsedCommands = <<>>
    /\ currentCommand = <<>>
    /\ result = "idle"
    /\ error = NoError

--------------------------------------------------------------------------
\* new Engine()
EngineInit ==
    /\ sequences = <<>>
    /\ valueContainer = <<>>
    /\ labelTable = <<>>
    /\ player = NoPlayer
    /\ callStack = <<>>
    /\ commandFinished = <<>>
    /\ updateCount = <<>>
    /\ onRegisteredCount = <<>>
    /\ registerLog = [s \in ScriptNames |-> <<>>]
    /\ labelsAtOnRegistered = <<>>
    /\ phase = "idle"
    /\ runner = 0
    /\ tickLog = <<>>
    /\ gosubAt = <<>>
    /\ haltedBefore = FALSE
    /\ failed = FALSE
    /\ labelResult = NoResult

Init == EngineInit /\ ParserIdle

Next ==
    \/ \E in \in Inputs : Register(in.commands, in.scriptName)
    \/ \E name \in LookupNames : GetLabel(name)
    \/ Run
    \/ PlayerRunLoop
    \/ PlayerRunUpdate
    \/ EngineRunReturn
    \/ \E h \in HostGotos : HostGoto(h.index, h.scriptName)
    \/ \E v \in HostValues : SetValue(v.name, v.value)
    \/ \E h \in HostGosubs : HostGosub(h.index, h.scriptName)
    \/ \E s \in DOMAIN sequences :
           \E i \in 0..(Len(sequences[s]) - 1) : ExternalStop(s, i)

Spec == Init /\ [][Next]_vars

\* The host only registers and ticks.  Engine.run is a single synchronous
\* call: once entered, its steps are taken one after the other until it
\* returns.
NextRun ==
    \/ \E in \in Inputs : Register(in.commands, in.scriptName)
    \/ Run
    \/ PlayerRunLoop
    \/ PlayerRunUpdate
    \/ EngineRunReturn

SpecRun ==
    /\ Init
    /\ [][NextRun]_vars
    /\ WF_vars(PlayerRunLoop)
    /\ WF_vars(PlayerRunUpdate)
    /\ WF_vars(EngineRunReturn)

--------------------------------------------------------------------------
\* Parser.parse.  The script text is a sequence of one-character strings;
\* positions are 0-based as in the source.

\* The parts the script texts are put together from.
CallF == <<"F", "(", ")">>
CallFArgs == <<"F", "(", "\"", "a", "\"", ",", "1", ")">>
CallFNewlineInString == <<"F", "(", "\"", "\n", "\"", ")">>
CallFNewlineBeforeParen == <<"F", "\n", "(", ")">>
CallZ == <<"Z", "(", ")">>
Newline == <<"\n">>
Comment == <<"/", "/", "x", "\n">>
CommentAtEnd == <<"/", "/", "x">>
OpenCall == <<"F", "(">>
OpenString == <<"F", "(", "\"", "a">>
OpenArgument == <<"F", "(", "-", "1">>
NameOnly == <<"F">>

Pieces ==
    { CallF, CallFArgs, CallFNewlineInString, CallFNewlineBeforeParen,
      CallZ, Newline, Comment, CommentAtEnd, OpenCall, OpenString,
      OpenArgument, NameOnly }

RECURSIVE Join(_)
Join(parts) ==
    IF parts = <<>> THEN <<>> ELSE Head(parts) \o Join(Tail(parts))

\* The lists of pieces a script text is made of.
Texts == UNION { [1..n -> Pieces] : n \in 1..MaxPieces }

\* The name -> factory table: one factory, stored under "F".  A factory
\* builds a command that records the factory used and the arguments.
commandTable == { <<"F">> }
Factory(name, arguments) == [factory |-> name, arguments |-> arguments]

\* s[i]: undefined outside the text.
charAt(s, i) == IF i >= 0 /\ i < Len(s) THEN s[i + 1] ELSE "undefined"

\* The characters of " \t\r\n;,".
Separators == {" ", "\t", "\r", "\n", ";", ","}
NumberChars == {"-", "+", ".", "0", "1", "2", "3", "4", "5", "6", "7",
                "8", "9"}
Digits == <<"0", "1", "2", "3", "4", "5", "6", "7", "8", "9">>
\* /[a-z]/i
Letters ==
    {"a", "b", "c", "d", "e", "f", "g", "h", "i", "j", "k", "l", "m",
     "n", "o", "p", "q", "r", "s", "t", "u", "v", "w", "x", "y", "z",
     "A", "B", "C", "D", "E", "F", "G", "H", "I", "J", "K", "L", "M",
     "N", "O", "P", "Q", "R", "S", "T", "U", "V", "W", "X", "Y", "Z"}

\* String.indexOf(ch, from): -1 when ch does not occur at or after from.
indexOfFrom(s, ch, from) ==
    IF \E i \in from..(Len(s) - 1) : s[i + 1] = ch
    THEN CHOOSE i \in from..(Len(s) - 1) :
             /\ s[i + 1] = ch
             /\ \A j \in from..(i - 1) : s[j + 1] # ch
    ELSE -1

\* String.substr(start, length): empty when length is not positive.
substr(s, from, length) ==
    IF length <= 0 \/ from >= Len(s)
    THEN <<>>
    ELSE SubSeq(s, from + 1,
                IF from + length < Len(s) THEN from + length ELSE Len(s))

\* String.trim
RECURSIVE trim(_)
trim(s) ==
    IF s = <<>> THEN s
    ELSE IF Head(s) \in {" ", "\t", "\r", "\n"} THEN trim(Tail(s))
    ELSE IF s[Len(s)] \in {" ", "\t", "\r", "\n"}
    THEN trim(SubSeq(s, 1, Len(s) - 1))
    ELSE s

DigitValue(ch) == (CHOOSE d \in 1..10 : Digits[d] = ch) - 1

\* Value of the longest run of digits at the head of s, after value acc.
RECURSIVE DigitsValue(_, _)
DigitsValue(s, acc) ==
    IF s = <<>> \/ Head(s) \notin NumberChars \ {"-", "+", "."}
    THEN acc
    ELSE DigitsValue(Tail(s), 10 * acc + DigitValue(Head(s)))

RECURSIVE DigitsRun(_)
DigitsRun(s) ==
    IF s = <<>> \/ Head(s) \notin NumberChars \ {"-", "+", "."}
    THEN <<>>
    ELSE <<Head(s)>> \o DigitsRun(Tail(s))

\* parseFloat of a token of number characters: an optional sign, digits,
\* an optional "." and digits; what follows is ignored; NaN when there is
\* no digit.  The fraction is kept as its digits.
parseFloat(token) ==
    LET signed == token # <<>> /\ Head(token) \in {"-", "+"}
        body == IF signed THEN Tail(token) ELSE token
        int == DigitsRun(body)
        rest == SubSeq(body, Len(int) + 1, Len(body))
        frac == IF rest # <<>> /\ Head(rest) = "."
                THEN DigitsRun(Tail(rest)) ELSE <<>>
    IN  IF int = <<>> /\ frac = <<>>
        THEN [type |-> "number", nan |-> TRUE, negative |-> FALSE,
              integer |-> 0, fraction |-> <<>>]
        ELSE [type |-> "number", nan |-> FALSE,
              negative |-> (signed /\ Head(token) = "-"),
              integer |-> DigitsValue(int, 0), fraction |-> frac]

StringValue(token) == [type |-> "string", value |-> token]

\* skip_whitespace: the position after the separators at i, and the line
\* counter after the newlines among them.
RECURSIVE skip_whitespace(_, _, _)
skip_whitespace(s, i, ln) ==
    IF charAt(s, i) \in Separators
    THEN skip_whitespace(s, i + 1,
                         IF charAt(s, i) = "\n" THEN ln + 1 ELSE ln)
    ELSE [p |-> i, line |-> ln]

Push == stateStack' = Append(stateStack, state)
Pop ==
    /\ state' = stateStack[Len(stateStack)]
    /\ stateStack' = SubSeq(stateStack, 1, Len(stateStack) - 1)

Throw(kind, ln) ==
    /\ result' = "thrown"
    /\ error' = Error(kind, ln)

\* One pass of the while loop of parse is taken in state st.
InCase(st) ==
    /\ result = "running"
    /\ pos < Len(script)
    /\ state = st

ParseDefault ==
    /\ InCase("default")
    /\ IF charAt(script, pos) \in Separators
       THEN Push /\ state' = "whitespace" /\ UNCHANGED <<result, error>>
       ELSE IF charAt(script, pos) = "/" /\ charAt(script, pos + 1) = "/"
       THEN Push /\ state' = "singlelinecomment"
            /\ UNCHANGED <<result, error>>
       ELSE IF charAt(script, pos) \in Letters
       THEN Push /\ state' = "function" /\ UNCHANGED <<result, error>>
       ELSE Throw("syntax", line) /\ UNCHANGED <<state, stateStack>>
    /\ UNCHANGED <<script, pieces, pos, line, parsedCommands, currentCommand>>
    /\ UNCHANGED vars

ParseWhitespace ==
    /\ InCase("whitespace")
    /\ pos' = skip_whitespace(script, pos, line).p
    /\ line' = skip_whitespace(script, pos, line).line
    /\ Pop
    /\ UNCHANGED <<script, pieces, parsedCommands, currentCommand, result,
                   error>>
    /\ UNCHANGED vars

\* One pass of the loop `while (script[p++] !== "\n") ;`, which does not
\* test p against the length of the text.  Past the end every position
\* reads undefined; the counter is followed up to one past the end.
ParseSingleLineComment ==
    /\ result = "running"
    /\ state = "singlelinecomment"
    /\ pos' = IF pos > Len(script) THEN pos ELSE pos + 1
    /\ IF charAt(script, pos) = "\n"
       THEN line' = line + 1 /\ Pop
       ELSE UNCHANGED <<line, state, stateStack>>
    /\ UNCHANGED <<script, pieces, parsedCommands, currentCommand, result,
                   error>>
    /\ UNCHANGED vars

ParseFunction ==
    /\ InCase("function")
    /\ LET sk == skip_whitespace(script, pos, line)
           index == indexOfFrom(script, "(", sk.p)
           token == trim(substr(script, sk.p, index - sk.p))
       IN  /\ line' = sk.line
           /\ IF charAt(script, sk.p) = ")"
              THEN IF currentCommand = <<>>
                   THEN /\ Throw("typeerror", sk.line)
                        /\ pos' = sk.p
                        /\ UNCHANGED <<state, stateStack, parsedCommands,
                                       currentCommand>>
                   ELSE IF Head(currentCommand).value \notin commandTable
                   THEN /\ Throw("unsupported", sk.line)
                        /\ pos' = sk.p
                        /\ currentCommand' = Tail(currentCommand)
                        /\ UNCHANGED <<state, stateStack, parsedCommands>>
                   ELSE /\ parsedCommands' =
                              Append(parsedCommands,
                                     Factory(Head(currentCommand).value,
                                             Tail(currentCommand)))
                        /\ currentCommand' = Tail(currentCommand)
                        /\ pos' = sk.p + 1
                        /\ Pop
                        /\ UNCHANGED <<result, error>>
              ELSE /\ currentCommand' = <<StringValue(token)>>
                   /\ pos' = index + 1
                   /\ Push
                   /\ state' = "argument"
                   /\ UNCHANGED <<parsedCommands, result, error>>
    /\ UNCHANGED <<script, pieces>>
    /\ UNCHANGED vars

ParseArgument ==
    /\ InCase("argument")
    /\ LET sk == skip_whitespace(script, pos, line)
       IN  /\ pos' = sk.p
           /\ line' = sk.line
           /\ IF charAt(script, sk.p) = ")"
              THEN Pop /\ UNCHANGED <<result, error>>
              ELSE IF charAt(script, sk.p) = "\""
              THEN Push /\ state' = "argument_string"
                   /\ UNCHANGED <<result, error>>
              ELSE IF charAt(script, sk.p) \in NumberChars
              THEN Push /\ state' = "argument_number"
                   /\ UNCHANGED <<result, error>>
              ELSE Throw("argument", sk.line)
                   /\ UNCHANGED <<state, stateStack>>
    /\ UNCHANGED <<script, pieces, parsedCommands, currentCommand>>
    /\ UNCHANGED vars

ParseArgumentString ==
    /\ InCase("argument_string")
    /\ LET index == indexOfFrom(script, "\"", pos + 1)
           token == substr(script, pos + 1, index - (pos + 1))
       IN  /\ currentCommand' = Append(currentCommand, StringValue(token))
           /\ pos' = index + 1
    /\ Pop
    /\ UNCHANGED <<script, pieces, line, parsedCommands, result, error>>
    /\ UNCHANGED vars

\* The position after the number characters at i.
RECURSIVE NumberEnd(_, _)
NumberEnd(s, i) ==
    IF charAt(s, i) \in NumberChars THEN NumberEnd(s, i + 1) ELSE i

ParseArgumentNumber ==
    /\ InCase("argument_number")
    /\ LET index == NumberEnd(script, pos)
           token == substr(script, pos, index - pos)
       IN  /\ currentCommand' = Append(currentCommand, parseFloat(token))
           /\ pos' = index
    /\ Pop
    /\ UNCHANGED <<script, pieces, line, parsedCommands, result, error>>
    /\ UNCHANGED vars

\* The while loop ends: parse returns parsedCommands.
ParseReturn ==
    /\ result = "running"
    /\ state # "singlelinecomment"
    /\ pos >= Len(script)
    /\ result' = "returned"
    /\ UNCHANGED <<script, pieces, pos, state, stateStack, line, parsedCommands,
                   currentCommand, error>>
    /\ UNCHANGED vars

\* Parser.parse(commandTable, script, Filename) is entered.
InitParser ==
    /\ EngineInit
    /\ pieces \in Texts
    /\ script = Join(pieces)
    /\ pos = 0
    /\ state = "default"
    /\ stateStack = <<>>
    /\ line = 1
    /\ parsedCommands = <<>>
    /\ currentCommand = <<>>
    /\ result = "running"
    /\ error = NoError

NextParser ==
    \/ ParseDefault
    \/ ParseWhitespace
    \/ ParseSingleLineComment
    \/ ParseFunction
    \/ ParseArgument
    \/ ParseArgumentString
    \/ ParseArgumentNumber
    \/ ParseReturn

SpecParser == InitParser /\ [][NextParser]_parserVars

--------------------------------------------------------------------------
\* Properties

LastEvent == tickLog[Len(tickLog)]

IsCmd(c) == c.tag = "cmd"

\* A command that is finished as soon as it is started, does not break
\* the tick and does not move the program counter itself.
IsPlainOneShot(c) ==
    /\ IsCmd(c)
    /\ fetchCommand(c).kind \in {"oneshot", "label"}
    /\ ~fetchCommand(c).isBreak
    /\ fetchCommand(c).onStart.op # "goto"

\* A Continuous command that calls stopCommand in its k-th update.
IsWait(c) ==
    /\ IsCmd(c)
    /\ fetchCommand(c).kind = "continuous"
    /\ fetchCommand(c).stopAt > 0
    /\ ~fetchCommand(c).stopInStart
    /\ fetchCommand(c).onStart.op = "none"

RunnerPlayer == GetPlayer(EngineState, runner)

\* C1: within one run() the start of an already-finished, non-breaking
\* command is followed at once by init/start of the command at the next
\* index, or by the halt at sequence exhaustion: the tick never ends at
\* such a command.  For a sequence beginning [OneShot, Halt] run from its
\* first command, the one run() fires init, start of 0, init, start, update
\* of 1 and nothing else, and leaves the Engine halted.
C1_FinishedCommandsChainInOneTick ==
    /\ \A p \in 1..Len(tickLog) :
          (tickLog[p].ev = "start" /\ IsPlainOneShot(tickLog[p].cmd)) =>
             LET c == tickLog[p].cmd
                 next == CommandAt(c.scriptName, c.index + 1)
             IN  IF p = Len(tickLog)
                 THEN phase = "loop"
                 ELSE IF phase = "idle"
                 THEN tickLog[p + 1].ev = "halt"
                      \/ (tickLog[p + 1].ev = "init"
                          /\ tickLog[p + 1].cmd = next)
                 ELSE IF c.index + 1 < Len(sequences[c.scriptName])
                 THEN tickLog[p + 1].ev = "init" /\ tickLog[p + 1].cmd = next
                 ELSE tickLog[p + 1].ev = "halt"
    /\ \A s \in DOMAIN sequences :
          ( /\ phase = "idle"
            /\ ~failed
            /\ Len(sequences[s]) >= 2
            /\ sequences[s][1] = Log
            /\ sequences[s][2] = CommandHaltCmd
            /\ tickLog # <<>>
            /\ tickLog[1].ev = "init"
            /\ tickLog[1].cmd = CommandAt(s, 0)
            /\ LastEvent.ev # "pop" ) =>
               /\ [k \in 1..Len(tickLog) |-> tickLog[k].ev] =
                     <<"init", "start", "init", "start", "update">>
               /\ tickLog[2].cmd = CommandAt(s, 0)
               /\ tickLog[4].cmd = CommandAt(s, 1)
               /\ tickLog[5].cmd = CommandAt(s, 1)
               /\ isHalted(player)

C1_Witness ==
    /\ phase = "idle"
    /\ DefaultScript \in DOMAIN sequences
    /\ sequences[DefaultScript] = <<Log, CommandHaltCmd>>
    /\ Len(tickLog) = 5
    /\ tickLog[2] = Event("start", CommandAt(DefaultScript, 0), TRUE)
    /\ tickLog[5].ev = "update"
    /\ isHalted(player)
    /\ callStack = <<>>

\* C2: a Continuous command that stops itself in its k-th update: start
\* follows its init and is followed by the first update in the same tick;
\* a tick holds at most one update; the update leaves the command
\* unfinished until the k-th since start, and finish follows exactly the
\* k-th; after that tick the Player still stands at the command.
C2_SelfStoppingCommand ==
    /\ \A p, q \in 1..Len(tickLog) :
          (tickLog[p].ev = "update" /\ tickLog[q].ev = "update") => p = q
    /\ \A p \in 1..Len(tickLog) :
          IsWait(tickLog[p].cmd) =>
             LET c == tickLog[p].cmd
                 k == fetchCommand(c).stopAt
                 n == updateCount[c.scriptName][c.index + 1]
             IN  /\ tickLog[p].ev = "start" =>
                       /\ p > 1
                       /\ tickLog[p - 1] = Event("init", c, FALSE)
                       /\ ~tickLog[p].fin
                       /\ IF p = Len(tickLog)
                          THEN phase \in {"loop", "upd"} /\ n = 0
                          ELSE tickLog[p + 1].ev = "update"
                               /\ tickLog[p + 1].cmd = c
                               /\ n = 1
                 /\ tickLog[p].ev = "update" =>
                       /\ n \in 1..k
                       /\ tickLog[p].fin = (n = k)
                       /\ phase \in {"ret", "idle"}
                       /\ IF n = k
                          THEN /\ p < Len(tickLog)
                               /\ tickLog[p + 1] = Event("finish", c, TRUE)
                               /\ RunnerPlayer.currentCommand = c
                               /\ RunnerPlayer.programCounter = c.index
                          ELSE \A r \in 1..Len(tickLog) :
                                  tickLog[r].ev # "finish"
                 /\ tickLog[p].ev = "finish" =>
                       /\ p > 1
                       /\ tickLog[p - 1] = Event("update", c, TRUE)

\* The second update of a Wait(2) command, in a tick of its own.
C2_Witness ==
    /\ phase = "idle"
    /\ Len(tickLog) = 2
    /\ IsWait(tickLog[1].cmd)
    /\ fetchCommand(tickLog[1].cmd).stopAt = 2
    /\ tickLog[1].ev = "update"
    /\ tickLog[2].ev = "finish"
    /\ updateCount[tickLog[1].cmd.scriptName][tickLog[1].cmd.index + 1] = 2

\* Positions of the tick's log at which command c became finished.
BecameFinished(c) ==
    {p \in 1..Len(tickLog) :
        /\ tickLog[p].cmd = c
        /\ tickLog[p].ev \in {"start", "update"}
        /\ tickLog[p].fin}

FinishCalls(c) ==
    {p \in 1..Len(tickLog) : tickLog[p].cmd = c /\ tickLog[p].ev = "finish"}

\* C3 (as claimed): every command that became finished in a tick, right
\* after its start or after an update, had finish called in that tick,
\* once for each time it became finished.
C3_FinishOncePerActivation ==
    phase = "idle" =>
       \A p \in 1..Len(tickLog) :
          IsCmd(tickLog[p].cmd) =>
             Cardinality(FinishCalls(tickLog[p].cmd)) =
                Cardinality(BecameFinished(tickLog[p].cmd))

\* C4 (as claimed): when run() pops a caller that a command's gosub had
\* pushed, the caller still stands at that command, so that the next
\* command it starts is the one at the following index.
C4_CallerResumesAfterGosubCommand ==
    ( /\ phase = "idle"
      /\ tickLog # <<>>
      /\ LastEvent.ev = "pop"
      /\ IsCmd(LastEvent.cmd) ) =>
         /\ player.sequence =
               [def |-> TRUE, scriptName |-> LastEvent.cmd.scriptName]
         /\ player.programCounter = LastEvent.cmd.index
         /\ player.currentCommand = LastEvent.cmd

\* C5 (as claimed): once the start of a command has called gosub, the
\* Player that run() is executing is on the call stack and inits, starts
\* and updates no further command in that tick.
C5_StackedPlayersAreSuspended ==
    \A p, q \in 1..Len(tickLog) :
       ( /\ p < q
         /\ tickLog[p].ev = "start"
         /\ IsCmd(tickLog[p].cmd)
         /\ fetchCommand(tickLog[p].cmd).onStart.op = "gosub" ) =>
            tickLog[q].ev \notin {"init", "start", "update"}

StackIds(stack) == [k \in 1..Len(stack) |-> stack[k].id]

\* C6: the call stack changes only by a push of the active Player (gosub,
\* which makes a new Player active) or, at the end of run(), by a pop of
\* its top into the active slot; that pop happens exactly when the active
\* Player is halted and the stack is not empty.
C6_CallStackIsLifo ==
    [][ /\ \/ /\ StackIds(callStack') = StackIds(callStack)
              /\ (player'.id = player.id \/ player.id = 0)
           \/ /\ StackIds(callStack') =
                    Append(StackIds(callStack), player.id)
              /\ player'.id \notin PlayerIds(EngineState)
              /\ player'.currentCommand = CommandReady
              /\ phase \in {"idle", "loop", "upd"}
              /\ callStack'[Len(callStack')].sequence = player.sequence
              /\ phase = "idle" => callStack'[Len(callStack')] = player
           \/ /\ phase = "ret"
              /\ isHalted(player)
              /\ callStack # <<>>
              /\ player' = callStack[Len(callStack)]
              /\ callStack' = SubSeq(callStack, 1, Len(callStack) - 1)
        /\ (phase = "ret" /\ phase' = "idle"
               /\ isHalted(player) /\ callStack # <<>>) =>
              Len(callStack') = Len(callStack) - 1
      ]_vars

\* A nested return: a pop that leaves an outer caller on the stack.
C6_Witness ==
    /\ phase = "idle"
    /\ tickLog # <<>>
    /\ LastEvent.ev = "pop"
    /\ Len(callStack) >= 1

\* C7 (as claimed): a pop is made only by a run() that began with the
\* active Player already halted.
C7_HaltObservableBeforePop ==
    (phase = "idle" /\ tickLog # <<>> /\ LastEvent.ev = "pop") =>
       haltedBefore

\* C7 (amended): when a run() returns, a halted active Player over a
\* non-empty call stack is a caller that this run() has just popped, never
\* the Player that this run() executed: the pop is made by the run() in
\* which the Player halted.
C7_PopInSameRun ==
    (phase = "idle" /\ tickLog # <<>>
        /\ isHalted(player) /\ callStack # <<>>) =>
       (LastEvent.ev = "pop" /\ player.id # runner)

\* A subroutine Player halts and is popped in one run(); the Engine is not
\* halted when that run() returns.
C7_Witness ==
    /\ phase = "idle"
    /\ tickLog # <<>>
    /\ LastEvent.ev = "pop"
    /\ \E p \in 1..Len(tickLog) : tickLog[p].ev = "halt"
    /\ ~haltedBefore
    /\ ~isHalted(player)

RECURSIVE Flatten(_)
Flatten(lists) ==
    IF lists = <<>> THEN <<>> ELSE Head(lists) \o Flatten(Tail(lists))

\* C8: each Sequence is the concatenation, in call order, of the lists
\* registered under its name, and a command registered in the j-th of k
\* register calls has received k - j + 1 onRegistered calls.
C8_RegisterAppends ==
    \A s \in ScriptNames :
       LET lists == registerLog[s]
           k == Len(lists)
       IN  /\ (k > 0) = (s \in DOMAIN sequences)
           /\ k > 0 =>
                 /\ sequences[s] = Flatten(lists)
                 /\ Len(onRegisteredCount[s]) = Len(sequences[s])
                 /\ \A j \in 1..k : \A i \in 1..Len(lists[j]) :
                       onRegisteredCount[s][
                           Len(Flatten(SubSeq(lists, 1, j - 1))) + i] =
                          k - j + 1

C8_Witness ==
    \E s \in ScriptNames :
       /\ Len(registerLog[s]) = 2
       /\ registerLog[s][1] # registerLog[s][2]
       /\ onRegisteredCount[s][1] = 2
       /\ onRegisteredCount[s][Len(sequences[s])] = 1

LabelsIndexedIn(table) ==
    \A s \in DOMAIN sequences : \A i \in 1..Len(sequences[s]) :
       sequences[s][i].kind = "label" =>
          fullname(s, sequences[s][i].name) \in DOMAIN table

\* C9: every Label command has an entry under its full name, every entry
\* points at a Label command of that name in its script, and the entries
\* were all present when the first onRegistered of the register call fired.
C9_LabelTableConsistent ==
    /\ LabelsIndexedIn(labelTable)
    /\ \A key \in DOMAIN labelTable :
          LET e == labelTable[key]
          IN  /\ key = fullname(e.scriptName, e.labelName)
              /\ e.scriptName \in DOMAIN sequences
              /\ e.index >= 0
              /\ e.index < Len(sequences[e.scriptName])
              /\ sequences[e.scriptName][e.index + 1] =
                    CommandLabel(e.labelName)
    /\ LabelsIndexedIn(labelsAtOnRegistered)

\* A label indexed in a second register call, behind older commands.
C9_Witness ==
    /\ \E key \in DOMAIN labelTable : labelTable[key].index >= 2
    /\ labelsAtOnRegistered = labelTable

\* The key under which a name is looked up when "/" at any position makes
\* it a full name.
ClaimedKey(name) ==
    IF \E i \in 1..Len(name) : name[i] = "/"
    THEN name
    ELSE fullname(player.sequence.scriptName, name)

\* C10 (as claimed): getLabel returns the entry stored under the name
\* itself when the name holds "/" at any position, otherwise the entry
\* under the active Player's script name + "/" + name, and a missing
\* result when there is no such entry.
C10_GetLabelQualification ==
    labelResult.called =>
       /\ labelResult.found = (ClaimedKey(labelResult.name) \in DOMAIN labelTable)
       /\ labelResult.found =>
             labelResult.label = labelTable[ClaimedKey(labelResult.name)]

\* The active Player stands, not yet started, before position index of
\* scriptName's sequence.
ArmedAt(p, index, scriptName) ==
    /\ p.sequence = SequenceOf(scriptName)
    /\ p.programCounter = index - 1
    /\ p.currentCommand = CommandReady

\* What a goto leaves alone: the stack (but for the cursor of the Player
\* whose run is executing, when it is a stacked one), the Sequences, the
\* label table and the value store; the active Player stays the same
\* object and stands before position hook.index of hook.scriptName.
GotoEffect(hook) ==
    /\ UNCHANGED <<sequences, labelTable, valueContainer>>
    /\ StackIds(callStack') = StackIds(callStack)
    /\ \A k \in 1..Len(callStack) :
          (phase = "idle" \/ callStack[k].id # runner) =>
             callStack'[k] = callStack[k]
    /\ player'.id = player.id
    /\ ArmedAt(player', hook.index, hook.scriptName)

\* C11: a goto, made by the host between ticks or by the start or update
\* hook of a command, leaves call stack, Sequences, label table and value
\* store as they are and re-arms the active Player at (scriptName, index);
\* a Player so armed starts next the command at that index, or halts when
\* the index is not less than the sequence's length.
C11_GotoChangesOnlyActivePlayer ==
    [][ /\ \A h \in HostGotos :
              HostGoto(h.index, h.scriptName) => GotoEffect(h)
        /\ ( /\ phase = "loop"
             /\ Len(tickLog') = Len(tickLog) + 2
             /\ tickLog'[Len(tickLog')].ev = "start"
             /\ fetchCommand(tickLog'[Len(tickLog')].cmd).onStart.op = "goto" )
               => GotoEffect(fetchCommand(tickLog'[Len(tickLog')].cmd).onStart)
        /\ ( /\ phase = "upd"
             /\ Len(tickLog') > Len(tickLog)
             /\ IsCmd(tickLog'[Len(tickLog) + 1].cmd)
             /\ fetchCommand(tickLog'[Len(tickLog) + 1].cmd).kind = "continuous"
             /\ fetchCommand(tickLog'[Len(tickLog) + 1].cmd).onUpdate.op
                   = "goto" )
               => GotoEffect(
                      fetchCommand(tickLog'[Len(tickLog) + 1].cmd).onUpdate)
        /\ ( /\ phase = "loop"
             /\ tickLog' # tickLog
             /\ RunnerPlayer.currentCommand = CommandReady
             /\ RunnerPlayer.sequence.def ) =>
               LET s == RunnerPlayer.sequence.scriptName
                   i == RunnerPlayer.programCounter + 1
                   e == tickLog'[Len(tickLog) + 1]
               IN  IF i < Len(sequences[s])
                   THEN e.ev = "init" /\ e.cmd = CommandAt(s, i)
                   ELSE /\ e.ev = "halt"
                        /\ isHalted(GetPlayer([EngineState EXCEPT
                                                  !.player = player',
                                                  !.callStack = callStack'],
                                               runner))
      ]_vars

\* A goto made by a command's start, and the command at the goto's index
\* started next by the active Player.
C11_Witness ==
    \E p \in 1..(Len(tickLog) - 1) :
       /\ tickLog[p].ev = "start"
       /\ IsCmd(tickLog[p].cmd)
       /\ fetchCommand(tickLog[p].cmd).onStart.op = "goto"
       /\ fetchCommand(tickLog[p].cmd).onStart.index = 1
       /\ tickLog[p + 1].ev = "init"
       /\ tickLog[p + 1].cmd =
             CommandAt(fetchCommand(tickLog[p].cmd).onStart.scriptName, 1)
       /\ player.id = runner
       /\ valueContainer # <<>>

\* The Players the Engine holds: the active one and the stacked ones.
Players(active, stack) == {active} \cup {stack[k] : k \in 1..Len(stack)}

\* C12 (as claimed): a Player that a goto or gosub left with the Sequence
\* of a never-registered script keeps it until the failure is raised: the
\* reference is never dropped silently, and the next run() of that Player
\* and every unqualified getLabel while it is active raise the failure.
C12_UnregisteredScriptFails ==
    [][ /\ \A q \in Players(player, callStack) :
              (q.id # 0 /\ ~q.sequence.def /\ ~failed) =>
                 \/ failed'
                 \/ \E r \in Players(player', callStack') :
                       r.id = q.id /\ ~r.sequence.def
        /\ ( /\ phase = "loop"
             /\ ~RunnerPlayer.sequence.def
             /\ isFinished(EngineState, RunnerPlayer.currentCommand) ) =>
               (failed' \/ UNCHANGED vars)
        /\ \A name \in LookupNames :
              ( /\ GetLabel(name)
                /\ isFullname(name) = FALSE
                /\ ~player.sequence.def ) => failed'
      ]_vars

\* C13 (as claimed): after the start of a command whose isBreak is true,
\* whatever that start did, no command is started in the same run().
C13_BreakEndsTheTick ==
    \A p, q \in 1..Len(tickLog) :
       ( /\ p < q
         /\ tickLog[p].ev = "start"
         /\ IsCmd(tickLog[p].cmd)
         /\ fetchCommand(tickLog[p].cmd).isBreak ) =>
            tickLog[q].ev # "start"

\* currentCommand is a sentinel or the command at programCounter of the
\* Player's own sequence.
CurrentIsSentinelOrAtCounter(q) ==
    \/ q.currentCommand \in {CommandReady, CommandHalt}
    \/ /\ q.sequence.def
       /\ q.programCounter \in 0..(Len(sequences[q.sequence.scriptName]) - 1)
       /\ q.currentCommand =
             CommandAt(q.sequence.scriptName, q.programCounter)

\* C18 (as claimed): programCounter is the index of the last command the
\* Player started, -1 when it has started none since it was created or
\* reset, and currentCommand is a sentinel or the command at that index.
C18_CounterIsLastStarted ==
    \A q \in Players(player, callStack) :
       q.id # 0 =>
          /\ q.programCounter = q.lastStarted
          /\ CurrentIsSentinelOrAtCounter(q)

\* C18 (amended): currentCommand is a sentinel or the command at
\* programCounter; with a concrete command current, programCounter is the
\* index of the last command started; a Ready Player has started none and
\* its programCounter is the index of its creation or reset minus one (as
\* long as its sequence is a registered one); a Player that found its
\* sequence exhausted holds Halt with programCounter one past the last
\* command it started (its reset index if none).
C18_CounterPerCurrentCommand ==
    \A q \in Players(player, callStack) :
       q.id # 0 =>
          /\ CurrentIsSentinelOrAtCounter(q)
          /\ q.currentCommand.tag = "cmd" =>
                q.programCounter = q.lastStarted
          /\ q.currentCommand = CommandReady =>
                /\ q.lastStarted = -1
                /\ q.sequence.def => q.programCounter = q.resetIndex - 1
          /\ q.currentCommand = CommandHalt =>
                IF q.lastStarted = -1
                THEN q.programCounter = q.resetIndex
                ELSE q.programCounter = q.lastStarted + 1

\* A Player created by gosub(1, ...) that has not run yet, above a caller
\* that stands at a command it started, and a halted Player before.
C18_Witness ==
    /\ player.currentCommand = CommandReady
    /\ player.programCounter = 0
    /\ Len(callStack) = 2
    /\ callStack[1].currentCommand = CommandHalt
    /\ callStack[1].programCounter >= 2
    /\ callStack[2].currentCommand.tag = "cmd"

\* C19: from a state in which the Engine is halted with an empty call
\* stack, every step that is not a goto or a gosub of the host leaves the
\* active Player as it is, halted, and the stack empty; a run() calls no
\* hook but the effect-free update of the Halt the Player stands at, also
\* when register has appended commands to the Player's sequence.
C19_HaltedIsTerminal ==
    [][ (player.id # 0 /\ isHalted(player) /\ callStack = <<>>) =>
           \/ /\ player' = player
              /\ callStack' = <<>>
              /\ ~failed'
              /\ tickLog' \in
                    { tickLog, <<>>,
                      Append(tickLog,
                             Event("update", player.currentCommand, FALSE)) }
           \/ \E h \in HostGotos : HostGoto(h.index, h.scriptName)
           \/ \E h \in HostGosubs : HostGosub(h.index, h.scriptName)
      ]_vars

\* A run() of a Player that halted at the end of its sequence, made after
\* register appended commands behind its program counter.
C19_Witness ==
    /\ phase = "idle"
    /\ tickLog = <<Event("update", CommandHalt, FALSE)>>
    /\ callStack = <<>>
    /\ player.currentCommand = CommandHalt
    /\ haltedBefore
    /\ player.programCounter < Len(sequences[player.sequence.scriptName])

\* C20 (as claimed): every run() that was entered returns (here: unless
\* the call stack reaches the depth the model explores).
C20_RunReturns ==
    [](phase # "idle" => <>(phase = "idle" \/ Len(callStack) >= MaxStack))

\* C14 (as claimed): parse terminates on every text: as long as it has
\* neither returned nor thrown, it takes a step that changes its state.
C14_ParseTerminates ==
    result = "running" => ENABLED <<NextParser>>_parserVars

\* Number of occurrences of character ch in s.
RECURSIVE Occurrences(_, _)
Occurrences(s, ch) ==
    IF s = <<>>
    THEN 0
    ELSE (IF Head(s) = ch THEN 1 ELSE 0) + Occurrences(Tail(s), ch)

\* C15 (as claimed): when parse returns a list, no call is open at the
\* end of the text and every call opened by "(" has contributed one
\* command (in the texts parsed every "(" opens a call).
C15_NoPartialOutput ==
    result = "returned" =>
       /\ state = "default"
       /\ Len(parsedCommands) = Occurrences(script, "(")

\* The well-formed parts: calls, separators and comments.
WellFormedCalls == {CallF, CallFArgs, CallFNewlineInString, CallZ}
WellFormed(parts) ==
    /\ parts # <<>>
    /\ \A i \in 1..Len(parts) :
          \/ parts[i] \in WellFormedCalls \cup {Newline, Comment}
          \/ parts[i] = CommentAtEnd /\ i = Len(parts)

Number(n) ==
    [type |-> "number", nan |-> FALSE, negative |-> FALSE,
     integer |-> n, fraction |-> <<>>]

\* The command a well-formed call stands for.
CommandOf(part) ==
    CASE part = CallF -> Factory(<<"F">>, <<>>)
      [] part = CallFArgs ->
            Factory(<<"F">>, <<StringValue(<<"a">>), Number(1)>>)
      [] part = CallFNewlineInString ->
            Factory(<<"F">>, <<StringValue(<<"\n">>)>>)

RECURSIVE Expected(_)
Expected(parts) ==
    IF parts = <<>>
    THEN <<>>
    ELSE IF Head(parts) \in WellFormedCalls
    THEN <<CommandOf(Head(parts))>> \o Expected(Tail(parts))
    ELSE Expected(Tail(parts))

HasUnknownName(parts) == \E i \in 1..Len(parts) : parts[i] = CallZ

\* C16 (as claimed): for a text of well-formed calls, separators and
\* comments parse comes to an end; it returns exactly when every name is
\* in the table, and then the commands of the calls in source order with
\* their arguments; otherwise it throws the unsupported-command error.
C16_WellFormedCallsParse ==
    WellFormed(pieces) =>
       /\ result = "running" => ENABLED <<NextParser>>_parserVars
       /\ result = "returned" =>
             /\ ~HasUnknownName(pieces)
             /\ parsedCommands = Expected(pieces)
       /\ result = "thrown" =>
             /\ HasUnknownName(pieces)
             /\ error.kind = "unsupported"

\* C17 (as claimed): the Error thrown carries the filename and the line
\* of the cursor: 1 + the number of newlines before the position at which
\* the error is raised.
C17_ErrorLineIsCursorLine ==
    result = "thrown" =>
       /\ error.filename = Filename
       /\ error.line = 1 + Occurrences(SubSeq(script, 1, pos), "\n")

====
